---- MODULE Spec2Model ----
(***************************************************************************)
(* The two pipelines of public/examples: fix_weavr_model.py (normalise the *)
(* types, synthesise OUTBOUND edges from INBOUND ones, purge the INBOUND   *)
(* edges, lay the elements out, write the document) and audit_patterns.py  *)
(* (check the predecessor rules and report the violations).                *)
(*                                                                         *)
(* Python objects are shared by reference between the slices' buckets and  *)
(* element_map, so the elements live in a heap (a sequence indexed by a    *)
(* handle) and the buckets and element_map hold handles.  A dict is a      *)
(* sequence of <<key, value>> pairs in insertion order.  A key a dict may  *)
(* lack is the value Absent.                                               *)
(***************************************************************************)
EXTENDS Integers, Sequences, FiniteSets, TLC

VARIABLES
  family,       \* which inputs the loader draws (fixed by the initial state)
  slices,       \* data['eventModel']['slices']: the slices, buckets of handles
  heap,         \* the element objects, by handle
  element_map,  \* fix_model: element_map, <<id, handle>> in insertion order
  count_fixed,  \* fix_model: count_fixed
  layout,       \* fix_model: layout, <<id, entry>> in insertion order
  output,       \* the output file: <<>> or <<document>>
  prev,         \* the document the previous run wrote: <<>> or <<document>>
  run,          \* which run of fix_model this is
  violations,   \* audit_patterns: violations
  report,       \* audit_patterns: the lines printed after the header
  pc            \* where the script is

vars == <<family, slices, heap, element_map, count_fixed, layout, output,
          prev, run, violations, report, pc>>

-----------------------------------------------------------------------------
(* Bounds of the model *)

\* elements the loader puts in a graph whose dependencies are explored
MaxSynthElems == 2
\* dependency edges the loader puts in such a graph, all elements together
MaxDeps == 2
\* elements the loader puts in a graph explored for its layout
MaxLayoutElems == 3
\* elements of a graph explored for malformed elements
MaxMalformedElems == 2
\* elements of a graph explored by the audit
MaxAuditElems == 2
\* dependency edges of a graph explored by the audit, all elements together
MaxAuditDeps == 1
\* slices of the document
NumSlices == 2
\* runs of fix_model, each on the document the previous one wrote
MaxRuns == 2

-----------------------------------------------------------------------------
(* Values *)

Absent == "<absent>"

SliceIds == <<"S1", "S2", "S3", "S4">>
ElementIds == <<"e1", "e2", "e3", "e4", "e5">>
ElementTitles == <<"t1", "t2", "t3", "t4", "t5">>
DanglingId == "nowhere"

InternalTypes ==
  {"SCREEN", "COMMAND", "DOMAIN_EVENT", "INTEGRATION_EVENT", "READ_MODEL", "AUTOMATION"}

SchemaTypes == {"SCREEN", "COMMAND", "EVENT", "READMODEL", "AUTOMATION"}

Range(s) == {s[i] : i \in DOMAIN s}

\* The buckets of a slice, and the bucket an element of a type is filed in.
BucketOf(type) ==
  CASE type = "COMMAND" -> "commands"
    [] type \in {"DOMAIN_EVENT", "EVENT"} -> "events"
    [] type \in {"READ_MODEL", "READMODEL"} -> "readmodels"
    [] type = "SCREEN" -> "screens"
    [] type = "AUTOMATION" -> "processors"
    [] OTHER -> "integrationEvents"

\* The place of a bucket in the order the scripts gather the buckets in.
BucketRank(b) ==
  CASE b = "commands" -> 1
    [] b = "events" -> 2
    [] b = "readmodels" -> 3
    [] b = "screens" -> 4
    [] b = "processors" -> 5
    [] OTHER -> 6

EmptySlice(k) ==
  [id |-> SliceIds[k], commands |-> <<>>, events |-> <<>>, readmodels |-> <<>>,
   screens |-> <<>>, processors |-> <<>>, integrationEvents |-> <<>>]

NewElement(id, title, type) ==
  [id |-> id, title |-> title, type |-> type, context |-> Absent,
   hasDeps |-> FALSE, dependencies |-> <<>>, tmp |-> <<>>]

-----------------------------------------------------------------------------
(* dict *)

DictHas(d, key) == \E i \in DOMAIN d : d[i][1] = key

DictGet(d, key) == d[CHOOSE i \in DOMAIN d : d[i][1] = key][2]

DictPut(d, key, val) ==
  IF DictHas(d, key)
  THEN [i \in DOMAIN d |-> IF d[i][1] = key THEN <<key, val>> ELSE d[i]]
  ELSE Append(d, <<key, val>>)

-----------------------------------------------------------------------------
(* fix_weavr_model.py *)

\* map_type with an else branch that files every type it does not know as
\* COMMAND, the default of step 4.
map_type_DefaultsUnknown(el) ==
  IF el.type = "DOMAIN_EVENT" THEN [el EXCEPT !.type = "EVENT"]
  ELSE IF el.type = "INTEGRATION_EVENT"
       THEN [el EXCEPT !.type = "EVENT", !.context = "EXTERNAL"]
  ELSE IF el.type = "READ_MODEL" THEN [el EXCEPT !.type = "READMODEL"]
  ELSE IF el.type \in {"SCREEN", "COMMAND", "AUTOMATION"} THEN el
  ELSE [el EXCEPT !.type = "COMMAND"]

map_type(el) ==
  IF el.type = "DOMAIN_EVENT" THEN [el EXCEPT !.type = "EVENT"]
  ELSE IF el.type = "INTEGRATION_EVENT"
       THEN [el EXCEPT !.type = "EVENT", !.context = "EXTERNAL"]
  ELSE IF el.type = "READ_MODEL" THEN [el EXCEPT !.type = "READMODEL"]
  ELSE el

\* The buckets gathered with the events before the commands.
AllElements_EventsFirst(s) ==
  s.events \o s.commands \o s.readmodels \o s.screens \o s.processors
    \o s.integrationEvents

\* all_elements / s_elements / elements: the buckets of a slice, gathered.
AllElements(s) ==
  s.commands \o s.events \o s.readmodels \o s.screens \o s.processors
    \o s.integrationEvents

\* slices.index(s): the first slice equal to s, counted from 0.
SliceIndex(sl, k) ==
  (CHOOSE j \in 1..Len(sl) :
      /\ sl[j] = sl[k]
      /\ \A i \in 1..(j - 1) : sl[i] # sl[k]) - 1

\* The elements in the order the loops over the slices visit them, each with
\* the place of its slice.
RECURSIVE Visits(_, _)
Visits(sl, k) ==
  IF k > Len(sl) THEN <<>>
  ELSE [i \in 1..Len(AllElements(sl[k])) |-> <<k, AllElements(sl[k])[i]>>]
         \o Visits(sl, k + 1)

\* Step 1, the body of the loop over all_elements for one element: st is
\* [heap, element_map, ok], ok FALSE once el['id'] has raised KeyError.
MapElement(sl, st, k, h) ==
  LET el == map_type(st.heap[h])
  IN IF el.id = Absent
     THEN [heap |-> [st.heap EXCEPT ![h] = el],
           element_map |-> st.element_map, ok |-> FALSE]
     ELSE [heap |-> [st.heap EXCEPT ![h] =
                       [el EXCEPT !.hasDeps = TRUE,
                                  !.tmp = <<sl[k].id, SliceIndex(sl, k)>>]],
           element_map |-> DictPut(st.element_map, el.id, h),
           ok |-> TRUE]

RECURSIVE MapAll(_, _, _, _)
MapAll(sl, st, visits, i) ==
  IF i > Len(visits) \/ ~st.ok THEN st
  ELSE MapAll(sl, MapElement(sl, st, visits[i][1], visits[i][2]), visits, i + 1)

IsInbound(d) == d.type = "INBOUND"

IsOutbound(d) == d.type = "OUTBOUND"

\* [d['id'] for d in source_el.get('dependencies', []) if d.get('type') == 'OUTBOUND']
OutboundIds(el) == {d.id : d \in {x \in Range(el.dependencies) : IsOutbound(x)}}

\* Step 2 with the membership test made on existing_outbound, the OUTBOUND ids
\* of el itself (line 74 computes it and nothing reads it), instead of those
\* of the source.
SynthEdge_ExistingOutbound(em, st, el_id, h, dep) ==
  IF DictHas(em, dep.id)
  THEN LET src == DictGet(em, dep.id)
       IN IF dep.id \notin OutboundIds(st.heap[h])
          THEN [heap |-> [st.heap EXCEPT ![src].dependencies =
                    Append(@, [id |-> el_id, type |-> "OUTBOUND",
                               title |-> IF dep.title = Absent THEN "" ELSE dep.title,
                               elementType |-> st.heap[h].type])],
                count |-> st.count + 1]
          ELSE st
  ELSE st

\* Step 2, the body of the loop over inbound for one edge: st is [heap, count].
SynthEdge(em, st, el_id, h, dep) ==
  IF DictHas(em, dep.id)
  THEN LET src == DictGet(em, dep.id)
       IN IF el_id \notin OutboundIds(st.heap[src])
          THEN [heap |-> [st.heap EXCEPT ![src].dependencies =
                    Append(@, [id |-> el_id, type |-> "OUTBOUND",
                               title |-> IF dep.title = Absent THEN "" ELSE dep.title,
                               elementType |-> st.heap[h].type])],
                count |-> st.count + 1]
          ELSE st
  ELSE st

\* Step 2 for one entry of element_map, its inbound edges taken in the order
\* perm (the code's order is 1, 2, ...).
RECURSIVE SynthInbound(_, _, _, _, _, _, _)
SynthInbound(em, st, el_id, h, inbound, perm, j) ==
  IF j > Len(perm) THEN st
  ELSE SynthInbound(em, SynthEdge(em, st, el_id, h, inbound[perm[j]]),
                    el_id, h, inbound, perm, j + 1)

SynthElement(em, st, i, perm) ==
  LET h == em[i][2]
      inbound == SelectSeq(st.heap[h].dependencies, IsInbound)
  IN SynthInbound(em, st, em[i][1], h, inbound, perm, 1)

\* Step 2, the entries of element_map taken in the order elOrder, the inbound
\* edges of entry i in the order perms[i].
RECURSIVE SynthAll(_, _, _, _, _)
SynthAll(em, st, elOrder, perms, n) ==
  IF n > Len(elOrder) THEN st
  ELSE SynthAll(em, SynthElement(em, st, elOrder[n], perms[elOrder[n]]),
                elOrder, perms, n + 1)

Ident(n) == [j \in 1..n |-> j]

InboundCount(hp, h) == Len(SelectSeq(hp[h].dependencies, IsInbound))

\* The order of the code: element_map.items(), and each inbound list as it is.
CodeOrder(em) == Ident(Len(em))

CodePerms(hp, em) == [i \in 1..Len(em) |-> Ident(InboundCount(hp, em[i][2]))]

FixDependencies(hp, em) ==
  SynthAll(em, [heap |-> hp, count |-> 0], CodeOrder(em), CodePerms(hp, em), 1)

\* Step 3 with the test turned round.
KeepOutbound_NotOutbound(deps) == SelectSeq(deps, IsInbound)

\* Step 3: el['dependencies'] = [d for d in el['dependencies'] if d.get('type') == 'OUTBOUND']
KeepOutbound(deps) == SelectSeq(deps, IsOutbound)

CleanUp(hp, em) ==
  [h \in DOMAIN hp |->
     IF \E i \in DOMAIN em : em[i][2] = h
     THEN [hp[h] EXCEPT !.dependencies = KeepOutbound(@)]
     ELSE hp[h]]

\* Step 4: the layout constants.
SLICE_WIDTH == 1200
SLICE_GAP == 100
ROW_HEIGHT == 180
BASE_Y == 100
ELEMENT_HEIGHT == 120

\* TYPE_X.get(etype, 0)
TYPE_X(etype) ==
  CASE etype = "SCREEN" -> 0
    [] etype = "COMMAND" -> 250
    [] etype = "AUTOMATION" -> 500
    [] etype = "EVENT" -> 500
    [] etype = "READMODEL" -> 750
    [] OTHER -> 0

\* base_x without the gap between the slices.
BaseX_NoGap(s_idx) == s_idx * SLICE_WIDTH

\* base_x = s_idx * (SLICE_WIDTH + SLICE_GAP), s_idx counted from 0
BaseX(s_idx) == s_idx * (SLICE_WIDTH + SLICE_GAP)

\* counters, as each slice starts
NewCounters ==
  <<<<"SCREEN", 0>>, <<"COMMAND", 0>>, <<"AUTOMATION", 0>>, <<"EVENT", 0>>,
    <<"READMODEL", 0>>>>

\* counters.get(etype, 0)
CounterGet(counters, etype) ==
  IF DictHas(counters, etype) THEN DictGet(counters, etype) ELSE 0

\* Step 4, the body of the loop over s_elements for one element: st is
\* [heap, layout, counters, ok], ok FALSE once el['title'] or el['id'] has
\* raised KeyError.
PlaceElement(st, s_idx, h) ==
  LET el == st.heap[h]
      etype == el.type
      x_offset == TYPE_X(etype)
      y_offset == CounterGet(st.counters, etype) * ROW_HEIGHT
      counters1 == DictPut(st.counters, etype, CounterGet(st.counters, etype) + 1)
  IN IF el.title = Absent \/ el.id = Absent
     THEN [st EXCEPT !.counters = counters1, !.ok = FALSE]
     ELSE [heap |-> [st.heap EXCEPT ![h].tmp = <<>>],
           layout |-> DictPut(st.layout, el.id,
                        [x |-> BaseX(s_idx) + x_offset, y |-> BASE_Y + y_offset,
                         height |-> ELEMENT_HEIGHT, type |-> etype,
                         title |-> el.title]),
           counters |-> counters1,
           ok |-> TRUE]

RECURSIVE PlaceSlice(_, _, _, _)
PlaceSlice(st, s_idx, s_elements, i) ==
  IF i > Len(s_elements) \/ ~st.ok THEN st
  ELSE PlaceSlice(PlaceElement(st, s_idx, s_elements[i]), s_idx, s_elements, i + 1)

\* Step 4, the loop over enumerate(slices): k is s_idx + 1.
RECURSIVE PlaceAll(_, _, _)
PlaceAll(sl, st, k) ==
  IF k > Len(sl) \/ ~st.ok THEN st
  ELSE PlaceAll(sl,
                PlaceSlice([st EXCEPT !.counters = NewCounters], k - 1,
                           AllElements(sl[k]), 1),
                k + 1)

GenerateLayout(sl, hp) ==
  PlaceAll(sl, [heap |-> hp, layout |-> <<>>, counters |-> NewCounters, ok |-> TRUE], 1)

-----------------------------------------------------------------------------
(* The input document: json.load(f) *)

\* What the loader draws for each family of inputs.
SynthTypes == {"COMMAND", "DOMAIN_EVENT", "INTEGRATION_EVENT"}

FamilyTypes(f) == IF f = "synth" THEN SynthTypes ELSE InternalTypes

FamilySlices(f) == IF f \in {"layout", "audit"} THEN 1..NumSlices ELSE {1}

FamilyIdKinds(f) ==
  IF f = "malformed" THEN {"fresh", "same", "absent"} ELSE {"fresh"}

FamilyTitleKinds(f) == IF f = "malformed" THEN {"present", "absent"} ELSE {"present"}

FamilyMaxElems(f) ==
  CASE f = "synth" -> MaxSynthElems
    [] f = "layout" -> MaxLayoutElems
    [] f = "malformed" -> MaxMalformedElems
    [] OTHER -> MaxAuditElems

FamilyMaxDeps(f) ==
  CASE f = "synth" -> MaxDeps
    [] f = "audit" -> MaxAuditDeps
    [] OTHER -> 0

TotalDeps(hp) ==
  LET RECURSIVE Sum(_)
      Sum(h) == IF h = 0 THEN 0 ELSE Len(hp[h].dependencies) + Sum(h - 1)
  IN Sum(Len(hp))

KnownIds(hp) == {hp[h].id : h \in DOMAIN hp} \ {Absent}

TypeOfId(hp, id) == hp[CHOOSE h \in DOMAIN hp : hp[h].id = id].type

\* The place of an element in the order the scripts visit the elements in.
VisitRank(k, type) == k * 10 + BucketRank(BucketOf(type))

LastVisitRank(sl, hp) ==
  LET v == Visits(sl, 1)
  IN IF v = <<>> THEN 0 ELSE VisitRank(v[Len(v)][1], hp[v[Len(v)][2]].type)

\* The document gains an element, in slice k, in the bucket of its type. The
\* elements are given in the order the scripts visit them, so that a handle
\* is the element's place in that order.
LoadElement ==
  /\ pc = "load" /\ run = 1
  /\ Len(heap) < FamilyMaxElems(family)
  /\ TotalDeps(heap) = 0
  /\ \E k \in FamilySlices(family), type \in FamilyTypes(family),
        idKind \in FamilyIdKinds(family), titleKind \in FamilyTitleKinds(family) :
       LET h == Len(heap) + 1
           id == CASE idKind = "fresh" -> ElementIds[h]
                   [] idKind = "same" -> ElementIds[1]
                   [] OTHER -> Absent
           title == IF titleKind = "present" THEN ElementTitles[h] ELSE Absent
       IN /\ VisitRank(k, type) >= LastVisitRank(slices, heap)
          /\ idKind = "same" => h > 1
          /\ heap' = Append(heap, NewElement(id, title, type))
          /\ slices' = [slices EXCEPT ![k][BucketOf(type)] = Append(@, h)]
  /\ UNCHANGED <<family, element_map, count_fixed, layout, output, prev, run,
                 violations, report, pc>>

\* The dependency edges the loader draws for the fix pipeline: an INBOUND edge
\* names an element or nothing in the graph and has a title or none, an
\* OUTBOUND edge names an element; the elementType is the type of the element
\* named, as the input has it.
SynthDeps(hp) ==
  {[id |-> i, type |-> "INBOUND", title |-> t,
    elementType |-> IF i = DanglingId THEN "SCREEN" ELSE TypeOfId(hp, i)] :
      i \in KnownIds(hp) \cup {DanglingId}, t \in {"a", Absent}}
  \cup
  {[id |-> i, type |-> "OUTBOUND", title |-> "o", elementType |-> TypeOfId(hp, i)] :
      i \in KnownIds(hp)}

\* The dependency edges the loader draws for the audit: an INBOUND edge names
\* an element, with that element's type as its elementType, or names nothing
\* in the graph, with any of DanglingTypes; an OUTBOUND edge names an element.
DanglingTypes == {"SCREEN", "COMMAND", "DOMAIN_EVENT"}

AuditDeps(hp) ==
  {[id |-> i, type |-> "INBOUND", title |-> "a", elementType |-> TypeOfId(hp, i)] :
      i \in KnownIds(hp)}
  \cup
  {[id |-> DanglingId, type |-> "INBOUND", title |-> "a", elementType |-> t] :
      t \in DanglingTypes}
  \cup
  {[id |-> hp[1].id, type |-> "OUTBOUND", title |-> "o", elementType |-> hp[1].type]}

FamilyDeps(f, hp) == IF f = "synth" THEN SynthDeps(hp) ELSE AuditDeps(hp)

\* An element of the document gains a dependency edge.
LoadDep ==
  /\ pc = "load" /\ run = 1
  /\ Len(heap) > 0
  /\ TotalDeps(heap) < FamilyMaxDeps(family)
  /\ \E h \in DOMAIN heap, dep \in FamilyDeps(family, heap) :
       heap' = [heap EXCEPT ![h].hasDeps = TRUE, ![h].dependencies = Append(@, dep)]
  /\ UNCHANGED <<family, slices, element_map, count_fixed, layout, output, prev,
                 run, violations, report, pc>>

-----------------------------------------------------------------------------
(* fix_model, step by step *)

\* Lines 21-66: the slices are read and every element is mapped.
MapElements ==
  /\ pc = "load"
  /\ IF Len(slices) = 0
     THEN /\ pc' = "noslices"
          /\ UNCHANGED <<heap, element_map>>
     ELSE LET st == MapAll(slices, [heap |-> heap, element_map |-> <<>>, ok |-> TRUE],
                           Visits(slices, 1), 1)
          IN /\ heap' = st.heap
             /\ element_map' = st.element_map
             /\ pc' = IF st.ok THEN "mapped" ELSE "error"
  /\ count_fixed' = 0
  /\ layout' = <<>>
  /\ UNCHANGED <<family, slices, output, prev, run, violations, report>>

\* Lines 68-92.
FixDeps ==
  /\ pc = "mapped"
  /\ LET st == FixDependencies(heap, element_map)
     IN /\ heap' = st.heap
        /\ count_fixed' = st.count
  /\ pc' = "fixed"
  /\ UNCHANGED <<family, slices, element_map, layout, output, prev, run,
                 violations, report>>

\* Lines 94-96.
CleanUpInbound ==
  /\ pc = "fixed"
  /\ heap' = CleanUp(heap, element_map)
  /\ pc' = "cleaned"
  /\ UNCHANGED <<family, slices, element_map, count_fixed, layout, output, prev,
                 run, violations, report>>

\* Lines 98-164: the layout is generated and the document written.
LayoutAndWrite ==
  /\ pc = "cleaned"
  /\ LET st == GenerateLayout(slices, heap)
     IN /\ heap' = st.heap
        /\ layout' = st.layout
        /\ pc' = IF st.ok THEN "written" ELSE "error"
        /\ output' = IF st.ok
                     THEN <<[slices |-> slices, elements |-> st.heap,
                             layout |-> st.layout]>>
                     ELSE output
  /\ UNCHANGED <<family, slices, element_map, count_fixed, prev, run,
                 violations, report>>

\* The script is run again, on the document it wrote.
Rerun ==
  /\ pc = "written"
  /\ run < MaxRuns
  /\ run' = run + 1
  /\ prev' = output
  /\ slices' = output[1].slices
  /\ heap' = output[1].elements
  /\ element_map' = <<>>
  /\ count_fixed' = 0
  /\ layout' = <<>>
  /\ pc' = "load"
  /\ UNCHANGED <<family, output, violations, report>>

InitFamily(f) ==
  /\ family = f
  /\ slices = [k \in 1..NumSlices |-> EmptySlice(k)]
  /\ heap = <<>>
  /\ element_map = <<>>
  /\ count_fixed = 0
  /\ layout = <<>>
  /\ output = <<>>
  /\ prev = <<>>
  /\ run = 1
  /\ violations = <<>>
  /\ report = <<>>
  /\ pc = "load"

InitFix == InitFamily("synth")

NextFix ==
  \/ LoadElement
  \/ LoadDep
  \/ MapElements
  \/ FixDeps
  \/ CleanUpInbound
  \/ LayoutAndWrite
  \/ Rerun

SpecFix == InitFix /\ [][NextFix]_vars

InitLayout == InitFamily("layout")

NextLayout ==
  \/ LoadElement
  \/ MapElements
  \/ FixDeps
  \/ CleanUpInbound
  \/ LayoutAndWrite

SpecLayout == InitLayout /\ [][NextLayout]_vars

-----------------------------------------------------------------------------
(* The claims about the fix pipeline *)

UniqueIds ==
  \A h1, h2 \in DOMAIN heap : h1 # h2 => heap[h1].id # heap[h2].id

\* The OUTBOUND edges of element h that name id.
OutboundTo(hp, h, id) ==
  LET Names(d) == IsOutbound(d) /\ d.id = id
  IN SelectSeq(hp[h].dependencies, Names)

\* The handles every bucket of every slice of a document holds.
Filed(sl) == UNION {Range(AllElements(sl[k])) : k \in DOMAIN sl}

\* C1 (as claimed): after synthesis, for every INBOUND edge on E naming F, F
\* has exactly one OUTBOUND edge naming E, and its elementType is E's
\* normalised type, whatever OUTBOUND edges F carried in the input.
C1_Symmetry ==
  (pc = "fixed" /\ run = 1 /\ UniqueIds) =>
    LET final == CleanUp(heap, element_map)
    IN \A e, f \in DOMAIN heap :
         \A i \in DOMAIN heap[e].dependencies :
           LET d == heap[e].dependencies[i]
           IN (IsInbound(d) /\ d.id = heap[f].id) =>
                LET outs == OutboundTo(final, f, heap[e].id)
                IN Len(outs) = 1 /\ outs[1].elementType = heap[e].type

\* C2 (as claimed): once the fix pipeline has completed, every OUTBOUND edge
\* that names an element of the graph carries that element's type as its
\* elementType, the edges of the input as well as the synthesised ones.
C2_OutboundInSync ==
  (pc = "written" /\ run = 1 /\ UniqueIds) =>
    \A a \in DOMAIN heap :
      \A i \in DOMAIN heap[a].dependencies :
        LET d == heap[a].dependencies[i]
        IN (IsOutbound(d) /\ d.id \in KnownIds(heap)) =>
             d.elementType = TypeOfId(heap, d.id)

\* The orders step 2 could visit a graph in: a permutation of element_map's
\* entries, and for each entry a permutation of its inbound edges.
Perms(n) == {p \in [1..n -> 1..n] : \A i, j \in 1..n : i # j => p[i] # p[j]}

RECURSIVE InboundOrdersUpTo(_, _, _)
InboundOrdersUpTo(hp, em, n) ==
  IF n = 0 THEN {<<>>}
  ELSE {Append(f, p) : f \in InboundOrdersUpTo(hp, em, n - 1),
                       p \in Perms(InboundCount(hp, em[n][2]))}

InboundOrders(hp, em) == InboundOrdersUpTo(hp, em, Len(em))

\* The graphs step 2 leaves, one for each order.
SynthResults(hp, em) ==
  {SynthAll(em, [heap |-> hp, count |-> 0], elOrder, perms, 1).heap :
     elOrder \in Perms(Len(em)), perms \in InboundOrders(hp, em)}

\* The final OUTBOUND edges of element h: each as id, title and elementType,
\* or as id and elementType.
OutEdges(hp, h) ==
  {[id |-> d.id, title |-> d.title, elementType |-> d.elementType] :
      d \in Range(KeepOutbound(hp[h].dependencies))}

OutLinks(hp, h) ==
  {[id |-> d.id, elementType |-> d.elementType] :
      d \in Range(KeepOutbound(hp[h].dependencies))}

\* Two INBOUND edges of one element name the same source with different
\* titles (no title counting as the empty title).
TitleOf(d) == IF d.title = Absent THEN "" ELSE d.title

TitleConflict(hp) ==
  \E h \in DOMAIN hp : \E i, j \in DOMAIN hp[h].dependencies :
    LET a == hp[h].dependencies[i]
        b == hp[h].dependencies[j]
    IN IsInbound(a) /\ IsInbound(b) /\ a.id = b.id /\ TitleOf(a) # TitleOf(b)

\* C3 (as claimed): for a normalised graph, the final set of OUTBOUND edges of
\* every element, each edge taken as id, title and elementType, is the same
\* whatever the order the elements and their INBOUND edges are visited in.
C3_Confluence ==
  pc = "mapped" =>
    \A other \in SynthResults(heap, element_map) :
      \A h \in DOMAIN heap :
        OutEdges(other, h) = OutEdges(FixDependencies(heap, element_map).heap, h)

\* C3 (amended): whatever the order, the final OUTBOUND edges of every element
\* are the same as id and elementType; they are the same as id, title and
\* elementType too unless some element carries several INBOUND edges that name
\* the same source with different titles (the synthesised edge then has the
\* title of the one visited first).
C3_ConfluenceUpToTitle ==
  pc = "mapped" =>
    \A other \in SynthResults(heap, element_map) :
      LET code == FixDependencies(heap, element_map).heap
      IN /\ [h \in DOMAIN heap |-> OutLinks(other, h)]
              = [h \in DOMAIN heap |-> OutLinks(code, h)]
         /\ ~TitleConflict(heap) =>
              [h \in DOMAIN heap |-> OutEdges(other, h)]
                = [h \in DOMAIN heap |-> OutEdges(code, h)]

\* C3's case: step 2 has added an edge to a graph of several elements in which
\* one source is named by INBOUND edges of different titles.
C3_Witness ==
  /\ pc = "fixed" /\ run = 1
  /\ Len(element_map) > 1
  /\ count_fixed > 0
  /\ TitleConflict(heap)

\* C4: running the pipeline on the document a run wrote changes no element's
\* type, context or dependency list; map_type leaves a mapped element as it
\* is, and steps 2 and 3 leave a cleaned graph as it is.
C4_Idempotent ==
  /\ (pc = "written" /\ run > 1) =>
       \A h \in DOMAIN heap :
         /\ heap[h].type = prev[1].elements[h].type
         /\ heap[h].context = prev[1].elements[h].context
         /\ heap[h].dependencies = prev[1].elements[h].dependencies
  /\ pc = "mapped" => \A h \in DOMAIN heap : map_type(heap[h]) = heap[h]
  /\ pc = "cleaned" =>
       CleanUp(FixDependencies(heap, element_map).heap, element_map) = heap

\* C4's case: a second run has completed on a document whose first run
\* rewrote a type and added an edge.
C4_Witness ==
  /\ pc = "written" /\ run > 1
  /\ \E h \in DOMAIN heap :
       /\ heap[h].context = "EXTERNAL"
       /\ heap[h].dependencies # <<>>
  /\ \E h \in DOMAIN heap : heap[h].type = "EVENT" /\ heap[h].context = Absent

\* C5: once the pipeline has completed on a graph of unique ids, every
\* dependency of every element of every bucket of every slice is OUTBOUND,
\* and every element of the graph is in the document written.
C5_OnlyOutbound ==
  (pc \in {"cleaned", "written"} /\ UniqueIds) =>
    /\ \A k \in DOMAIN slices : \A h \in Range(AllElements(slices[k])) :
         \A d \in Range(heap[h].dependencies) : d.type = "OUTBOUND"
    /\ pc = "written" =>
         /\ Filed(output[1].slices) = DOMAIN heap
         /\ \A h \in DOMAIN heap :
              /\ output[1].elements[h].id = heap[h].id
              /\ \A d \in Range(output[1].elements[h].dependencies) :
                   d.type = "OUTBOUND"

\* C5's case: the first run has completed on a graph of unique ids in which
\* an INBOUND edge made step 2 add an edge.
C5_Witness ==
  /\ pc = "written" /\ run = 1 /\ UniqueIds
  /\ Len(heap) > 1
  /\ count_fixed > 0

-----------------------------------------------------------------------------
(* The claims about the layout *)

SliceOf(h) == CHOOSE k \in DOMAIN slices : h \in Range(AllElements(slices[k]))

Placed(h) == DictGet(layout, heap[h].id)

Distance(a, b) == IF a >= b THEN a - b ELSE b - a

\* C8 (as claimed): the layout never gives two different elements the same
\* point, an AUTOMATION and an EVENT of one slice included.
C8_DistinctPoints ==
  (pc = "written" /\ UniqueIds) =>
    \A h1, h2 \in DOMAIN heap :
      h1 # h2 => (Placed(h1).x # Placed(h2).x \/ Placed(h1).y # Placed(h2).y)

\* C9 (as claimed): two elements placed in different slices are at least the
\* slice width apart in x.
C9_SliceWidthApart ==
  (pc = "written" /\ UniqueIds) =>
    \A h1, h2 \in DOMAIN heap :
      SliceOf(h1) # SliceOf(h2) =>
        Distance(Placed(h1).x, Placed(h2).x) >= SLICE_WIDTH

\* The least distance in x of two elements of neighbouring slices: the
\* slices' pitch less the widest column offset.
MinSliceSeparation == SLICE_WIDTH + SLICE_GAP - TYPE_X("READMODEL")

\* C9 (amended): two elements placed in different slices are at least the
\* slice width apart in x when they have the same type, and at least
\* slice width + gap - 750 = 550 apart whatever their types.
C9_SlicesApart ==
  (pc = "written" /\ UniqueIds) =>
    \A h1, h2 \in DOMAIN heap :
      SliceOf(h1) # SliceOf(h2) =>
        /\ Distance(Placed(h1).x, Placed(h2).x) >= MinSliceSeparation
        /\ heap[h1].type = heap[h2].type =>
             Distance(Placed(h1).x, Placed(h2).x) >= SLICE_WIDTH

\* C9's case: a layout with two elements of one type in different slices, and
\* a READMODEL and a SCREEN of neighbouring slices, the closest two can be.
C9_Witness ==
  /\ pc = "written" /\ UniqueIds
  /\ \E h1, h2 \in DOMAIN heap :
       /\ SliceOf(h1) # SliceOf(h2)
       /\ heap[h1].type = heap[h2].type
  /\ \E h1, h2 \in DOMAIN heap :
       /\ SliceOf(h1) # SliceOf(h2)
       /\ heap[h1].type = "READMODEL" /\ heap[h2].type = "SCREEN"
       /\ Distance(Placed(h1).x, Placed(h2).x) = MinSliceSeparation

-----------------------------------------------------------------------------
(* audit_patterns.py *)

\* el.get('id') of an element without id is None, which the f-string prints
\* as None.
NoneText == "None"

\* The loop over predecessors begun at the second one.
RECURSIVE HasValidParent_SkipsFirst(_, _, _)
HasValidParent_SkipsFirst(predecessors, allowed, i) ==
  IF i + 1 > Len(predecessors) THEN FALSE
  ELSE IF predecessors[i + 1].elementType \in allowed THEN TRUE
  ELSE HasValidParent_SkipsFirst(predecessors, allowed, i + 1)

\* The loops over predecessors, each left at the first valid parent.
RECURSIVE HasValidParent(_, _, _)
HasValidParent(predecessors, allowed, i) ==
  IF i > Len(predecessors) THEN FALSE
  ELSE IF predecessors[i].elementType \in allowed THEN TRUE
  ELSE HasValidParent(predecessors, allowed, i + 1)

\* The f-string of a violation, as its parts.
Violation(slice_id, type, title, el_id, missing) ==
  <<"[", slice_id, "] ", type, " '", title, "' (", el_id, ") missing ", missing, ".">>

\* One of the four rules on one element: st is [violations, ok], ok FALSE once
\* el['title'] has raised KeyError.
CheckRule(st, slice_id, el, type, allowed, missing) ==
  LET el_id == IF el.id = Absent THEN NoneText ELSE el.id
      predecessors == SelectSeq(el.dependencies, IsInbound)
  IN IF ~st.ok \/ el.type # type THEN st
     ELSE IF HasValidParent(predecessors, allowed, 1) THEN st
     ELSE IF el.title = Absent THEN [st EXCEPT !.ok = FALSE]
     ELSE [st EXCEPT !.violations =
             Append(@, Violation(slice_id, type, el.title, el_id, missing))]

\* The body of the loop over elements for one element: lines 31-79.
AuditElement(st, slice_id, el) ==
  LET r1 == CheckRule(st, slice_id, el, "COMMAND", {"SCREEN", "AUTOMATION"},
                      "SCREEN or AUTOMATION parent")
      r2 == CheckRule(r1, slice_id, el, "DOMAIN_EVENT", {"COMMAND"}, "COMMAND parent")
      r3 == CheckRule(r2, slice_id, el, "READ_MODEL",
                      {"DOMAIN_EVENT", "INTEGRATION_EVENT"}, "EVENT parent")
  IN CheckRule(r3, slice_id, el, "AUTOMATION",
               {"DOMAIN_EVENT", "INTEGRATION_EVENT", "READ_MODEL"},
               "EVENT or READ_MODEL parent")

RECURSIVE AuditAll(_, _, _, _, _)
AuditAll(sl, hp, st, visits, i) ==
  IF i > Len(visits) \/ ~st.ok THEN st
  ELSE AuditAll(sl, hp,
                AuditElement(st, sl[visits[i][1]].id, hp[visits[i][2]]),
                visits, i + 1)

\* Lines 81-86: what is printed after the header.
Printed(v) ==
  IF v = <<>> THEN <<<<"No pattern violations found!">>>>
  ELSE <<<<"Found ", Len(v), " violations:">>>> \o v

\* audit_patterns(), on the document as loaded.
Audit ==
  /\ pc = "load" /\ run = 1
  /\ LET st == AuditAll(slices, heap, [violations |-> <<>>, ok |-> TRUE],
                        Visits(slices, 1), 1)
     IN /\ violations' = st.violations
        /\ report' = IF st.ok THEN Printed(st.violations) ELSE <<>>
        /\ pc' = IF st.ok THEN "reported" ELSE "error"
  /\ UNCHANGED <<family, slices, heap, element_map, count_fixed, layout, output,
                 prev, run>>

InitAudit == InitFamily("audit")

NextAudit ==
  \/ LoadElement
  \/ LoadDep
  \/ Audit

SpecAudit == InitAudit /\ [][NextAudit]_vars

InitMalformed == InitFamily("malformed")

NextMalformed ==
  \/ LoadElement
  \/ MapElements
  \/ FixDeps
  \/ CleanUpInbound
  \/ LayoutAndWrite
  \/ Audit

SpecMalformed == InitMalformed /\ [][NextMalformed]_vars

-----------------------------------------------------------------------------
(* The claims about the audit *)

\* The rule table: the types an element of a type needs one of among the
\* elementTypes of its INBOUND edges.
HasRule(type) == type \in {"COMMAND", "DOMAIN_EVENT", "READ_MODEL", "AUTOMATION"}

Required(type) ==
  CASE type = "COMMAND" -> {"SCREEN", "AUTOMATION"}
    [] type = "DOMAIN_EVENT" -> {"COMMAND"}
    [] type = "READ_MODEL" -> {"DOMAIN_EVENT", "INTEGRATION_EVENT"}
    [] type = "AUTOMATION" -> {"DOMAIN_EVENT", "INTEGRATION_EVENT", "READ_MODEL"}
    [] OTHER -> {}

\* The INBOUND edges of an element whose elementType its rule asks for.
Matching(el) ==
  {d \in Range(el.dependencies) :
     d.type = "INBOUND" /\ d.elementType \in Required(el.type)}

LacksPredecessor(el) == HasRule(el.type) /\ Matching(el) = {}

\* Slice order, then bucket order.
BucketOrder ==
  <<"commands", "events", "readmodels", "screens", "processors", "integrationEvents">>

RECURSIVE InBucketOrder(_, _)
InBucketOrder(s, b) ==
  IF b > Len(BucketOrder) THEN <<>>
  ELSE s[BucketOrder[b]] \o InBucketOrder(s, b + 1)

RECURSIVE InSliceOrder(_, _)
InSliceOrder(sl, k) ==
  IF k > Len(sl) THEN <<>>
  ELSE [i \in 1..Len(InBucketOrder(sl[k], 1)) |-> <<k, InBucketOrder(sl[k], 1)[i]>>]
         \o InSliceOrder(sl, k + 1)

\* The diagnostics the claim asks for, each as slice id, type, title and id.
Expected ==
  LET Lacks(v) == LacksPredecessor(heap[v[2]])
      due == SelectSeq(InSliceOrder(slices, 1), Lacks)
  IN [i \in 1..Len(due) |->
        <<slices[due[i][1]].id, heap[due[i][2]].type, heap[due[i][2]].title,
          heap[due[i][2]].id>>]

\* The diagnostics the audit has emitted, each as slice id, type, title and id.
Emitted == [i \in 1..Len(violations) |->
              <<violations[i][2], violations[i][4], violations[i][6], violations[i][8]>>]

IsReported(h) == \E i \in DOMAIN violations : violations[i][8] = heap[h].id

\* C6: the audit emits one diagnostic for each element whose type has a rule
\* and none of whose INBOUND edges has an elementType the rule asks for, none
\* for any other element, in slice order and then bucket order; what it
\* prints is these diagnostics.
C6_ValidatorSound ==
  pc = "reported" =>
    /\ Emitted = Expected
    /\ \A i \in 1..Len(violations) : report[i + 1] = violations[i]
    /\ Len(report) = Len(violations) + 1

\* C6's case: the audit has reported one element and passed another whose
\* rule an INBOUND edge satisfies.
C6_Witness ==
  /\ pc = "reported"
  /\ \E h \in DOMAIN heap : IsReported(h)
  /\ \E h \in DOMAIN heap : HasRule(heap[h].type) /\ Matching(heap[h]) # {}

\* The only INBOUND edges of the element that its rule asks for name ids that
\* are no element of the graph.
OnlyDanglingMatch(h) ==
  /\ HasRule(heap[h].type)
  /\ Matching(heap[h]) # {}
  /\ \A d \in Matching(heap[h]) : d.id \notin KnownIds(heap)

Malformed == \E h \in DOMAIN heap : heap[h].id = Absent \/ heap[h].title = Absent

C10_MalformedIsFatal ==
  /\ Malformed => pc \notin {"written", "reported"}
  /\ pc = "error" => (output = <<>> /\ report = <<>>)
  /\ pc = "written" => output # <<>>
  /\ pc = "reported" => report # <<>>

====
